---- MODULE Spec2Model ----
(***************************************************************************)
(* Model of check_trustlines.py: main() loads the configuration and the    *)
(* wallet list, opens one websocket session, asks the ledger for the trust *)
(* lines of every wallet in turn, writes the result table and closes the   *)
(* session.                                                                *)
(*                                                                         *)
(* Python strings are sequences of one-character strings, so that split,   *)
(* strip and equality are computed as Python computes them.  Python dicts  *)
(* are records; a key that is absent from the dict is absent from the      *)
(* record's DOMAIN.                                                        *)
(***************************************************************************)
EXTENDS Integers, Sequences, FiniteSets, TLC

\* ------------------------------------------------------------------ bounds
\* Longest wallets.csv (data rows) the model reads.
MaxRows == 3
\* Longest "lines" list of an account_lines response in SpecEval.
MaxLines == 2

\* ------------------------------------------------------- Python primitives
\* Python's None, as a value comparable with the modelled strings (no
\* modelled string has a character of more than one letter).
None == <<"None">>

\* bool(v) for v an Optional[str]: None and "" are falsy.
Truthy(v) == v # None /\ v # <<>>

\* sep in s
Contains(s, sep) == \E i \in 1..Len(s) : s[i] = sep

\* s.split(sep) for a one-character separator: the list of pieces.
RECURSIVE Split(_, _)
Split(s, sep) ==
    IF Contains(s, sep)
    THEN LET i == CHOOSE k \in 1..Len(s) :
                      s[k] = sep /\ \A j \in 1..(k - 1) : s[j] # sep
         IN  <<SubSeq(s, 1, i - 1)>> \o Split(SubSeq(s, i + 1, Len(s)), sep)
    ELSE <<s>>

\* s.strip(): leading and trailing whitespace removed.
RECURSIVE Strip(_)
Strip(s) ==
    IF s = <<>> THEN s
    ELSE IF Head(s) = " " THEN Strip(Tail(s))
    ELSE IF s[Len(s)] = " " THEN Strip(SubSeq(s, 1, Len(s) - 1))
    ELSE s

\* d.get(k, default)
Get(d, k, default) == IF k \in DOMAIN d THEN d[k] ELSE default

\* The empty dict.
EmptyDict == [k \in {} |-> None]

\* ------------------------------------------------------------- input sets
rA == <<"r", "A">>
rX == <<"r", "X">>
rY == <<"r", "Y">>
USD == <<"U", "S", "D">>
Zero == <<"0">>

\* os.getenv of the three required settings: unset, empty, or a value.
UrlValues == {None, <<>>, <<"w", "s", "s">>}
IssuerValues == {None, <<>>, rA, <<"n", "s", ".", "r", "A">>,
                 <<"a", ".", "b", ".", "r", "A">>}
CurrencyValues == {None, <<>>, USD}

\* What a cell of the 'address' column can hold: None is the cell of a row
\* shorter than the header (csv.DictReader's restval).
CellValues == {None, <<>>, <<" ">>, rX, <<" ", "r", "X", " ">>, rY}

RECURSIVE SeqsUpTo(_, _)
SeqsUpTo(S, n) ==
    IF n = 0 THEN {<<>>}
    ELSE LET shorter == SeqsUpTo(S, n - 1)
         IN  shorter \cup {Append(s, x) : s \in shorter, x \in S}

\* wallets.csv as load_wallets meets it.
CsvFiles ==
    {[status |-> "missing", fieldnames |-> None, rows |-> <<>>],
     [status |-> "unreadable", fieldnames |-> None, rows |-> <<>>],
     [status |-> "ok", fieldnames |-> None, rows |-> <<>>],
     [status |-> "ok", fieldnames |-> <<"name">>, rows |-> <<rX>>]}
    \cup {[status |-> "ok", fieldnames |-> <<"name", "address">>, rows |-> r] :
            r \in SeqsUpTo(CellValues, 1)}
    \cup {[status |-> "ok", fieldnames |-> <<"address">>, rows |-> r] :
            r \in SeqsUpTo(CellValues, MaxRows)}

NotRead == [status |-> "unread", fieldnames |-> None, rows |-> <<>>]

\* ------------------------------------------------------------ load_wallets
\* The wallets list load_wallets builds from the rows (lines 110-113).
RECURSIVE CollectAddresses(_)
CollectAddresses(rows) ==
    IF rows = <<>> THEN <<>>
    ELSE LET address == Strip(Head(rows))
         IN  (IF address # <<>> THEN <<address>> ELSE <<>>)
                 \o CollectAddresses(Tail(rows))

\* load_wallets without the check of line 115: an empty list is returned.
LoadWalletsRaises_NoEmptyCheck(file) ==
    \/ file.status # "ok"
    \/ file.fieldnames = None
    \/ ~ Contains(file.fieldnames, "address")
    \/ \E i \in 1..Len(file.rows) : file.rows[i] = None

\* Whether load_wallets raises for this file: open() fails, fieldnames is
\* None (an empty file), 'address' is no column, a cell is None (None has no
\* strip), or no address is left.  Every one of them leaves as Exception.
LoadWalletsRaises(file) ==
    \/ file.status # "ok"
    \/ file.fieldnames = None
    \/ ~ Contains(file.fieldnames, "address")
    \/ \E i \in 1..Len(file.rows) : file.rows[i] = None
    \/ CollectAddresses(file.rows) = <<>>

LoadWalletsResult(file) == CollectAddresses(file.rows)

\* ------------------------------------------------- TrustLineChecker values
\* The issuer cut after the first separator: split(".")[1].
NormalizeIssuer_AfterFirst(token_issuer) ==
    IF Contains(token_issuer, ".")
    THEN Split(token_issuer, ".")[2]
    ELSE token_issuer

\* __init__ (lines 24-26): the comparable issuer.
NormalizeIssuer(token_issuer) ==
    IF Contains(token_issuer, ".")
    THEN LET parts == Split(token_issuer, ".") IN parts[Len(parts)]
    ELSE token_issuer

\* s.lower() on the letters the model uses.
Lower(s) ==
    [i \in 1..Len(s) |->
        CASE s[i] = "A" -> "a" [] s[i] = "B" -> "b" [] s[i] = "U" -> "u"
          [] s[i] = "S" -> "s" [] s[i] = "D" -> "d" [] OTHER -> s[i]]

\* The target test comparing without regard to case.
IsTarget_IgnoresCase(line, token_issuer, token_currency) ==
    /\ Lower(Get(line, "account", None)) = Lower(token_issuer)
    /\ Lower(Get(line, "currency", None)) = Lower(token_currency)

\* The target test of lines 71-74 on one entry of "lines".
IsTarget(line, token_issuer, token_currency) ==
    /\ Get(line, "account", None) = token_issuer
    /\ Get(line, "currency", None) = token_currency

\* The limit compared as a number: "0.0" is zero too.
LimitResult_Numeric(limit) == limit \notin {Zero, <<"0", ".", "0">>}

\* Line 76: return limit != "0".
LimitResult(limit) == limit # Zero

\* The limit read without a default: None for an entry that has none.
LimitOf_NoDefault(line) == Get(line, "limit", None)

\* Line 75: line.get("limit", "0").
LimitOf(line) == Get(line, "limit", Zero)

\* The scan going on past a matching entry of limit "0".
RECURSIVE ScanLines_AnyUsableMatch(_, _, _)
ScanLines_AnyUsableMatch(lines, token_issuer, token_currency) ==
    IF lines = <<>> THEN FALSE
    ELSE IF /\ IsTarget(Head(lines), token_issuer, token_currency)
            /\ LimitResult(LimitOf(Head(lines)))
         THEN TRUE
         ELSE ScanLines_AnyUsableMatch(Tail(lines), token_issuer, token_currency)

\* Lines 70-77: the scan over the entries, in the order received.
RECURSIVE ScanLines(_, _, _)
ScanLines(lines, token_issuer, token_currency) ==
    IF lines = <<>> THEN FALSE
    ELSE IF IsTarget(Head(lines), token_issuer, token_currency)
         THEN LimitResult(LimitOf(Head(lines)))
         ELSE ScanLines(Tail(lines), token_issuer, token_currency)

\* The entries scanned although the response carries an error.
EvaluateResult_IgnoresError(result, token_issuer, token_currency) ==
    ScanLines(Get(result, "lines", <<>>), token_issuer, token_currency)

\* Lines 45-77: what check_trustline returns for a response that arrived.
EvaluateResult(result, token_issuer, token_currency) ==
    IF "error" \in DOMAIN result THEN FALSE
    ELSE ScanLines(Get(result, "lines", <<>>), token_issuer, token_currency)

\* check_trustline without its try/except.
CaughtByCheckTrustline_Nothing(kind) == FALSE

\* Line 79, except Exception: the handler takes an Exception and lets a
\* BaseException (KeyboardInterrupt, CancelledError) through.
CaughtByCheckTrustline(kind) == kind = "raise"

\* What client.request does: it returns a response, raises an Exception
\* (drop: the connection is gone afterwards), or a BaseException arrives.
Returned(result) == [kind |-> "return", drop |-> FALSE, result |-> result]
Raised(drop) == [kind |-> "raise", drop |-> drop, result |-> EmptyDict]
Aborted == [kind |-> "abort", drop |-> FALSE, result |-> EmptyDict]

\* Lines 41-81: check_trustline's boolean for a reply it does not let through.
CheckTrustline(reply, token_issuer, token_currency) ==
    IF reply.kind = "return"
    THEN EvaluateResult(reply.result, token_issuer, token_currency)
    ELSE FALSE

\* An evaluation that leaves the issuer folded to lower case on the checker.
SelfAfterCheckTrustline_LowersIssuer(self) ==
    [self EXCEPT !.token_issuer = Lower(@)]

\* Lines 39-81: check_trustline reads self.client, self.token_issuer and
\* self.token_currency and assigns none of the checker's attributes.
SelfAfterCheckTrustline(self) == self

\* The append that also rewrites the earlier records of the same address.
AppendStatus_ReplacesKnown(res, wallet, has_trustline) ==
    Append([i \in 1..Len(res) |->
                IF res[i].address = wallet
                THEN [address |-> wallet, has_trustline |-> has_trustline]
                ELSE res[i]],
           [address |-> wallet, has_trustline |-> has_trustline])

\* The append skipping an address that already has a record.
AppendStatus_SkipsKnown(res, wallet, has_trustline) ==
    IF \E i \in 1..Len(res) : res[i].address = wallet
    THEN res
    ELSE Append(res, [address |-> wallet, has_trustline |-> has_trustline])

\* Line 88: results.append(WalletStatus(wallet, has_trustline)).
AppendStatus(res, wallet, has_trustline) ==
    Append(res, [address |-> wallet, has_trustline |-> has_trustline])

\* The settings tested for None alone: an empty string passes.
ConfigComplete_NoneOnly(url, issuer, currency) ==
    url # None /\ issuer # None /\ currency # None

\* Line 150: all([websocket_url, token_issuer, token_currency]).
ConfigComplete(url, issuer, currency) ==
    Truthy(url) /\ Truthy(issuer) /\ Truthy(currency)

\* A handler that writes what was collected before giving up.
HandlerPc_SavesPartial(kind) == "save"

\* Line 186, except Exception, then finally: where control goes when an
\* exception leaves the try body.
HandlerPc(kind) == IF kind = "Exception" THEN "except" ELSE "finally"

\* The close made only when the batch had returned.
CheckerBound_OnlyAfterBatch(names) == "results" \in names

\* Line 189: "checker" in locals().
CheckerBound(names) == "checker" \in names

\* close without the test of line 96.
ClientSet_Always(client, state) == TRUE

\* The close made only on a session that is open.
ClientSet_OnlyIfOpen(client, state) == client # "None" /\ state = "open"

\* Line 96: if self.client.
ClientSet(client, state) == client # "None"

\* Lines 129-137: the table save_results writes.
ResultTable(res) ==
    [i \in 1..Len(res) |->
        [address |-> res[i].address,
         has_trustline |-> IF res[i].has_trustline THEN "TRUE" ELSE "FALSE"]]

\* The loop leaving out the last wallet.
LoopOver_StopsEarly(n, ws) == n >= Len(ws) - 1

\* Line 86: the for loop is over once every wallet was taken.
LoopOver(n, ws) == n = Len(ws)

\* main without line 166: the batch starts on a client never opened.
After_NoConnect(step) ==
    CASE step = "load" -> "init"
      [] step = "init" -> "check"
      [] step = "connect" -> "check"
      [] step = "check" -> "save"
      [] step = "save" -> "summary"
      [] step = "summary" -> "finally"
      [] step = "except" -> "finally"
      [] step = "finally" -> "done"

\* Lines 160-190: the statement main goes to when this one completes.
After(step) ==
    CASE step = "load" -> "init"
      [] step = "init" -> "connect"
      [] step = "connect" -> "check"
      [] step = "check" -> "save"
      [] step = "save" -> "summary"
      [] step = "summary" -> "finally"
      [] step = "except" -> "finally"
      [] step = "finally" -> "done"

\* ------------------------------------------------------------------ replies
TargetLine(limit) == [account |-> rA, currency |-> USD, limit |-> limit]

\* The replies the ledger gives during a run of main.
BatchReplies ==
    {Returned([error |-> "actNotFound"]),
     Returned([lines |-> <<>>]),
     Returned([lines |-> <<TargetLine(<<"1">>)>>]),
     Returned([lines |-> <<TargetLine(Zero)>>]),
     Raised(FALSE), Raised(TRUE), Aborted}

\* -------------------------------------------------------------------- state
VARIABLES
    pc,        \* where main() is
    env,       \* websocket_url, token_issuer, token_currency as os.getenv gave them
    csv,       \* the wallets.csv load_wallets read (NotRead before)
    wallets,   \* main's wallets
    names,     \* the names bound in main's frame, as locals() sees them
    checker,   \* the TrustLineChecker's attributes
    session,   \* the websocket behind checker.client
    calls,     \* every call made on the websocket client, in order
    idx,       \* how many wallets the for loop of check_wallets has taken
    replies,   \* what each request came back with, in order
    results,   \* check_wallets' results list
    output,    \* every table written to the output file, in order
    summary,   \* what the final summary printed
    exc        \* the exception travelling through main, if any

vars == <<pc, env, csv, wallets, names, checker, session, calls, idx, replies,
          results, output, summary, exc>>

NoChecker == [websocket_url |-> None, token_issuer |-> None,
              token_currency |-> None, client |-> "None"]

NoSummary == [total |-> -1, with_trustline |-> -1, without_trustline |-> -1,
              missing |-> <<>>]

Init ==
    /\ pc = "config"
    /\ env = [websocket_url |-> None, token_issuer |-> None,
              token_currency |-> None]
    /\ csv = NotRead
    /\ wallets = <<>>
    /\ names = {}
    /\ checker = NoChecker
    /\ session = "absent"
    /\ calls = <<>>
    /\ idx = 0
    /\ replies = <<>>
    /\ results = <<>>
    /\ output = <<>>
    /\ summary = NoSummary
    /\ exc = "none"

\* An exception of this kind leaves the try body of main.
Raise(kind) ==
    /\ exc' = kind
    /\ pc' = HandlerPc(kind)

\* ------------------------------------------------------------------ actions
\* Lines 144-158: read the settings; return when one is missing.
LoadConfig ==
    /\ pc = "config"
    /\ \E url \in UrlValues, issuer \in IssuerValues, currency \in CurrencyValues :
        /\ env' = [websocket_url |-> url, token_issuer |-> issuer,
                   token_currency |-> currency]
        /\ pc' = IF ConfigComplete(url, issuer, currency) THEN "load" ELSE "done"
    /\ names' = {"websocket_url", "token_issuer", "token_currency",
                 "input_csv", "output_csv"}
    /\ UNCHANGED <<csv, wallets, checker, session, calls, idx, replies, results,
                   output, summary, exc>>

\* Line 162: wallets = load_wallets(input_csv).
LoadWallets ==
    /\ pc = "load"
    /\ \E file \in CsvFiles :
        /\ csv' = file
        /\ IF LoadWalletsRaises(file)
           THEN /\ Raise("Exception")
                /\ UNCHANGED <<wallets, names>>
           ELSE /\ wallets' = LoadWalletsResult(file)
                /\ names' = names \cup {"wallets"}
                /\ pc' = After("load")
                /\ UNCHANGED exc
    /\ UNCHANGED <<env, checker, session, calls, idx, replies, results, output,
                   summary>>

\* Line 165 and __init__, lines 22-28.
Construct ==
    /\ pc = "init"
    /\ checker' = [websocket_url |-> env.websocket_url,
                   token_issuer |-> NormalizeIssuer(env.token_issuer),
                   token_currency |-> env.token_currency,
                   client |-> "None"]
    /\ names' = names \cup {"checker"}
    /\ pc' = After("init")
    /\ UNCHANGED <<env, csv, wallets, session, calls, idx, replies, results,
                   output, summary, exc>>

\* Line 166 and connect, lines 30-37: the client is stored, then opened.
\* The open succeeds or raises; the constructor call of line 33 may itself
\* raise, and then self.client is still None.
Connect ==
    /\ pc = "connect"
    /\ \/ /\ checker' = [checker EXCEPT !.client = "ws"]
          /\ session' = "open"
          /\ calls' = Append(calls, <<"open", "ok">>)
          /\ pc' = After("connect")
          /\ UNCHANGED exc
       \/ /\ checker' = [checker EXCEPT !.client = "ws"]
          /\ session' = "new"
          /\ calls' = Append(calls, <<"open", "raise">>)
          /\ Raise("Exception")
       \/ /\ Raise("Exception")
          /\ UNCHANGED <<checker, session, calls>>
    /\ UNCHANGED <<env, csv, wallets, names, idx, replies, results, output,
                   summary>>

\* The replies a request can get: on a session that is not open the client
\* raises before anything is sent.
PossibleReplies(pool) == IF session = "open" THEN pool ELSE {Raised(FALSE)}

\* Lines 86-91, one turn of the loop: check_trustline on the next wallet,
\* then the append.
CheckWallet(pool) ==
    /\ pc = "check"
    /\ ~ LoopOver(idx, wallets)
    /\ idx' = idx + 1
    /\ checker' = SelfAfterCheckTrustline(checker)
    /\ \E reply \in PossibleReplies(pool) :
        /\ calls' = Append(calls, <<"request", reply.kind, wallets[idx + 1]>>)
        /\ replies' = Append(replies, reply)
        /\ session' = IF reply.drop THEN "dropped" ELSE session
        /\ IF reply.kind = "return" \/ CaughtByCheckTrustline(reply.kind)
           THEN /\ results' = AppendStatus(results, wallets[idx + 1],
                                  CheckTrustline(reply, checker.token_issuer,
                                                 checker.token_currency))
                /\ UNCHANGED <<pc, exc>>
           ELSE /\ Raise(IF reply.kind = "raise" THEN "Exception"
                         ELSE "BaseException")
                /\ UNCHANGED results
    /\ UNCHANGED <<env, csv, wallets, names, output, summary>>

\* Lines 92 and 168: check_wallets returns and main binds results.
CheckWalletsReturn ==
    /\ pc = "check"
    /\ LoopOver(idx, wallets)
    /\ names' = names \cup {"results"}
    /\ pc' = After("check")
    /\ UNCHANGED <<env, csv, wallets, checker, session, calls, idx, replies,
                   results, output, summary, exc>>

\* Line 171 and save_results, lines 127-139: the write succeeds or raises.
SaveResults ==
    /\ pc = "save"
    /\ \/ /\ output' = Append(output, ResultTable(results))
          /\ pc' = After("save")
          /\ UNCHANGED exc
       \/ /\ Raise("Exception")
          /\ UNCHANGED output
    /\ UNCHANGED <<env, csv, wallets, names, checker, session, calls, idx, replies,
                   results, summary>>

\* The list of line 174 built back to front.
RECURSIVE WithoutTrustline_Reversed(_)
WithoutTrustline_Reversed(res) ==
    IF res = <<>> THEN <<>>
    ELSE WithoutTrustline_Reversed(Tail(res))
             \o (IF ~ Head(res).has_trustline THEN <<Head(res).address>> ELSE <<>>)

\* [r.address for r in results if not r.has_trustline], line 174.
RECURSIVE WithoutTrustline(_)
WithoutTrustline(res) ==
    IF res = <<>> THEN <<>>
    ELSE (IF ~ Head(res).has_trustline THEN <<Head(res).address>> ELSE <<>>)
             \o WithoutTrustline(Tail(res))

\* sum(1 for r in results if r.has_trustline), line 173.
RECURSIVE TrustlinesCount(_)
TrustlinesCount(res) ==
    IF res = <<>> THEN 0
    ELSE (IF Head(res).has_trustline THEN 1 ELSE 0) + TrustlinesCount(Tail(res))

\* Lines 173-184: the final summary.
Summary ==
    /\ pc = "summary"
    /\ summary' = [total |-> Len(results),
                   with_trustline |-> TrustlinesCount(results),
                   without_trustline |-> Len(results) - TrustlinesCount(results),
                   missing |-> WithoutTrustline(results)]
    /\ names' = names \cup {"trustlines_count", "wallets_without_trustlines"}
    /\ pc' = After("summary")
    /\ UNCHANGED <<env, csv, wallets, checker, session, calls, idx, replies,
                   results, output, exc>>

\* Lines 186-187: the exception is printed and dropped.
Except ==
    /\ pc = "except"
    /\ exc' = "none"
    /\ pc' = After("except")
    /\ UNCHANGED <<env, csv, wallets, names, checker, session, calls, idx, replies,
                   results, output, summary>>

\* Lines 188-190 and close, lines 94-98; a BaseException leaves main after it.
Finally ==
    /\ pc = "finally"
    /\ IF CheckerBound(names) /\ ClientSet(checker.client, session)
       THEN /\ calls' = Append(calls, <<"close", "ok">>)
            /\ session' = "closed"
       ELSE UNCHANGED <<calls, session>>
    /\ pc' = After("finally")
    /\ UNCHANGED <<env, csv, wallets, names, checker, idx, replies, results,
                   output, summary, exc>>

Next ==
    \/ LoadConfig
    \/ LoadWallets
    \/ Construct
    \/ Connect
    \/ CheckWallet(BatchReplies)
    \/ CheckWalletsReturn
    \/ SaveResults
    \/ Summary
    \/ Except
    \/ Finally

Spec == Init /\ [][Next]_vars

\* ------------------------------------------------- the evaluator on its own
\* d1 and d2 in one dict.
Merge(d1, d2) ==
    [k \in DOMAIN d1 \cup DOMAIN d2 |-> IF k \in DOMAIN d1 THEN d1[k] ELSE d2[k]]

\* The dicts that have the key with one of the values, or lack it.
Optional(key, values) == {EmptyDict} \cup {[k \in {key} |-> v] : v \in values}

\* One entry of "lines": each field may be missing.
LineValues ==
    {Merge(a, Merge(c, l)) :
        a \in Optional("account", {rA, <<"r", "a">>}),
        c \in Optional("currency", {USD, <<"u", "s", "d">>}),
        l \in Optional("limit", {Zero, <<"1">>, <<"0", ".", "0">>})}

\* response.result: with or without "error", with or without "lines".
ResultValues ==
    {Merge(e, l) :
        e \in Optional("error", {"actNotFound"}),
        l \in Optional("lines", SeqsUpTo(LineValues, MaxLines))}

EvalReplies ==
    {Returned(r) : r \in ResultValues} \cup {Raised(FALSE), Raised(TRUE), Aborted}

\* The issuers the evaluator is built with.
EvalIssuers == {rA, <<"n", "s", ".", "r", "A">>, <<"r", "a">>}

\* main after connect() on a list of one address.
InitEval ==
    /\ pc = "check"
    /\ \E issuer \in EvalIssuers :
        /\ env = [websocket_url |-> <<"w", "s", "s">>, token_issuer |-> issuer,
                  token_currency |-> USD]
        /\ checker = [websocket_url |-> <<"w", "s", "s">>,
                      token_issuer |-> NormalizeIssuer(issuer),
                      token_currency |-> USD, client |-> "ws"]
    /\ csv = [status |-> "ok", fieldnames |-> <<"address">>, rows |-> <<rX>>]
    /\ wallets = <<rX>>
    /\ names = {"websocket_url", "token_issuer", "token_currency",
                "input_csv", "output_csv", "wallets", "checker"}
    /\ session = "open"
    /\ calls = << <<"open", "ok">> >>
    /\ idx = 0
    /\ replies = <<>>
    /\ results = <<>>
    /\ output = <<>>
    /\ summary = NoSummary
    /\ exc = "none"

NextEval == CheckWallet(EvalReplies)

SpecEval == InitEval /\ [][NextEval]_vars

\* =================================================================== claims
\* The calls made on the websocket client so far, by operation.
CallsOf(op) == {k \in 1..Len(calls) : calls[k][1] = op}

\* check_wallets has returned to main.
BatchReturned == "results" \in names

\* The session was opened and main has left the batch.
BatchLeft == <<"open", "ok">> \in {calls[k] : k \in 1..Len(calls)}
             /\ pc \notin {"connect", "check"}

\* C1: check_wallets returns one WalletStatus per input address, in input
\* order: the records collected so far carry the addresses of the wallets
\* taken so far, the returned list is as long as the input, and whenever
\* every request ended in a response, a protocol error or an Exception the
\* batch does return.
C1_OneStatusPerAddressInOrder ==
    /\ Len(results) <= Len(wallets)
    /\ \A i \in 1..Len(results) : results[i].address = wallets[i]
    /\ BatchReturned => Len(results) = Len(wallets)
    /\ (BatchLeft /\ \A i \in 1..Len(replies) : replies[i].kind # "abort")
           => BatchReturned

\* A returned batch over three addresses with a duplicate among them, one
\* answered with a trust line, one with a protocol error, one by an Exception.
C1_Witness ==
    /\ BatchReturned
    /\ Len(wallets) = 3
    /\ wallets[1] = wallets[3]
    /\ results[1].has_trustline
    /\ "error" \in DOMAIN replies[2].result
    /\ replies[3].kind = "raise"

\* C2: an Exception raised while address i is evaluated gives address i the
\* record false, and the batch goes on: it is left early only by a
\* BaseException, and a returned batch has sent one request per address.
C2_ExceptionYieldsFalseAndBatchGoesOn ==
    /\ \A i \in 1..Len(replies) :
          replies[i].kind = "raise"
              => /\ i <= Len(results)
                 /\ results[i].address = wallets[i]
                 /\ ~ results[i].has_trustline
    /\ (BatchLeft /\ ~ BatchReturned)
           => /\ replies # <<>>
              /\ replies[Len(replies)].kind = "abort"
    /\ BatchReturned
           => /\ Cardinality(CallsOf("request")) = Len(wallets)
              /\ Len(results) = Len(wallets)

\* The first request raises, the second address is found to hold the trust
\* line, the connection drops on the third and the batch still returns.
C2_Witness ==
    /\ BatchReturned
    /\ Len(wallets) = 3
    /\ replies[1] = Raised(FALSE)
    /\ ~ results[1].has_trustline
    /\ results[2].has_trustline
    /\ replies[3] = Raised(TRUE)
    /\ session = "dropped"

\* C3: at most one session is open at any time, and a run that created a
\* session has closed it exactly once when main returns, whichever way main
\* is left.
C3_SessionClosedExactlyOnce ==
    /\ Cardinality(CallsOf("open")) <= 1
    /\ Cardinality(CallsOf("close")) <= 1
    /\ session = "open"
           => Cardinality(CallsOf("open")) = 1 /\ CallsOf("close") = {}
    /\ (pc = "done" /\ CallsOf("open") # {})
           => /\ Cardinality(CallsOf("close")) = 1
              /\ session = "closed"
              /\ calls[Len(calls)][1] = "close"

\* main is left by a BaseException out of the batch, the session closed once.
C3_Witness ==
    /\ pc = "done"
    /\ exc = "BaseException"
    /\ Len(results) >= 1
    /\ Cardinality(CallsOf("close")) = 1
    /\ session = "closed"

\* C4: the session is opened once, before the first evaluation, and closed
\* once, after the last: every request comes after the successful open,
\* which is the first call, and before the close, which is the last.
C4_RequestsBetweenOpenAndClose ==
    /\ Cardinality(CallsOf("open")) <= 1
    /\ \A k \in CallsOf("open") : k = 1
    /\ \A k \in CallsOf("request") :
          /\ calls[1] = <<"open", "ok">>
          /\ \A j \in 1..k : calls[j][1] # "close"
    /\ \A k \in CallsOf("close") : k = Len(calls)
    /\ (pc = "done" /\ CallsOf("request") # {})
           => Cardinality(CallsOf("close")) = 1

\* A finished run: the open, three requests, the close.
C4_Witness ==
    /\ pc = "done"
    /\ Len(calls) = 5
    /\ calls[1] = <<"open", "ok">>
    /\ calls[4][1] = "request"
    /\ calls[5] = <<"close", "ok">>

\* A setting that is unset or empty.
Absent(v) == v = None \/ Len(v) = 0

SettingMissing ==
    \/ Absent(env.websocket_url)
    \/ Absent(env.token_issuer)
    \/ Absent(env.token_currency)

\* C5: with one of the three required settings unset or empty main returns
\* at once: nothing is called on the websocket client, the address list is
\* not read, nothing is written.
C5_MissingSettingHaltsBeforeAnything ==
    (pc # "config" /\ SettingMissing)
        => /\ pc = "done"
           /\ calls = <<>>
           /\ csv = NotRead
           /\ output = <<>>
           /\ "checker" \notin names

\* main has returned with the currency set to the empty string alone.
C5_Witness ==
    /\ pc = "done"
    /\ ~ Absent(env.websocket_url)
    /\ ~ Absent(env.token_issuer)
    /\ env.token_currency = <<>>

\* The address list of the claim's four cases: the file is missing or
\* unreadable, has no 'address' column, or holds no address once the blank
\* ones are dropped.
UnusableList ==
    \/ csv.status \in {"missing", "unreadable"}
    \/ csv.fieldnames = None
    \/ "address" \notin {csv.fieldnames[k] : k \in 1..Len(csv.fieldnames)}
    \/ \A k \in 1..Len(csv.rows) :
          \A c \in 1..Len(csv.rows[k]) : csv.rows[k][c] = " "

\* C6: with an unusable address list the run ends without a session: no
\* checker is built, nothing is called on the client, nothing is written.
C6_UnusableListHaltsBeforeSession ==
    (csv # NotRead /\ UnusableList)
        => /\ pc \in {"except", "finally", "done"}
           /\ "checker" \notin names
           /\ session = "absent"
           /\ calls = <<>>
           /\ output = <<>>

\* main has returned on a list of two blank addresses.
C6_Witness ==
    /\ pc = "done"
    /\ csv.status = "ok"
    /\ csv.fieldnames = <<"address">>
    /\ csv.rows = << <<" ">>, <<>> >>
    /\ calls = <<>>

\* C7: when the open fails no request is made, nothing is written, and the
\* client that was created is closed before main returns.
C7_FailedOpenIsReleased ==
    (calls # <<>> /\ calls[1] = <<"open", "raise">>)
        => /\ CallsOf("request") = {}
           /\ replies = <<>>
           /\ output = <<>>
           /\ pc = "done" => calls = << <<"open", "raise">>, <<"close", "ok">> >>

\* main has returned after a failed open.
C7_Witness ==
    /\ pc = "done"
    /\ calls = << <<"open", "raise">>, <<"close", "ok">> >>
    /\ output = <<>>

\* C10: the output table is written at most once, only after check_wallets
\* returned a record for every input address, and never on a run whose
\* batch was left by an exception.
C10_OutputOnlyAfterCompleteBatch ==
    /\ Len(output) <= 1
    /\ output # <<>>
           => /\ BatchReturned
              /\ Len(output[1]) = Len(wallets)
              /\ \A i \in 1..Len(wallets) : output[1][i].address = wallets[i]
    /\ ~ BatchReturned => output = <<>>

\* main is left by an exception out of the batch: two records were collected
\* and nothing was written.
C10_Witness ==
    /\ pc = "done"
    /\ replies # <<>>
    /\ replies[Len(replies)].kind = "abort"
    /\ Len(results) = 2
    /\ output = <<>>

\* The entries of the i-th response, a response without "lines" having none.
LinesOf(i) ==
    IF "lines" \in DOMAIN replies[i].result THEN replies[i].result.lines ELSE <<>>

\* The entry names the checker's issuer as its account and the checker's
\* currency, letter for letter.
Matches(line) ==
    /\ "account" \in DOMAIN line
    /\ line.account = checker.token_issuer
    /\ "currency" \in DOMAIN line
    /\ line.currency = checker.token_currency

\* The entry has a limit, and it is not the string "0".
LimitNotZero(line) == "limit" \in DOMAIN line /\ line.limit # <<"0">>

\* The i-th request came back with a response free of an error field.
Successful(i) ==
    replies[i].kind = "return" /\ "error" \notin DOMAIN replies[i].result

\* C8 as stated: for a successful response the result is true exactly when
\* some entry matches the target and has a limit other than "0".
C8_TrueIffSomeMatchWithLimit ==
    \A i \in 1..Len(results) :
        Successful(i)
            => (results[i].has_trustline
                    <=> \E k \in 1..Len(LinesOf(i)) :
                            Matches(LinesOf(i)[k]) /\ LimitNotZero(LinesOf(i)[k]))

\* C8, amended: for a successful response the result is true exactly when
\* the first entry matching the target has a limit other than "0"; without
\* a matching entry, and so without any entry, it is false.
C8_TrueIffFirstMatchWithLimit ==
    \A i \in 1..Len(results) :
        Successful(i)
            => (results[i].has_trustline
                    <=> \E k \in 1..Len(LinesOf(i)) :
                            /\ Matches(LinesOf(i)[k])
                            /\ \A j \in 1..(k - 1) : ~ Matches(LinesOf(i)[j])
                            /\ LimitNotZero(LinesOf(i)[k]))

\* A matching entry of limit "0" ahead of a matching entry of limit "1":
\* the answer is false.
C8_Witness ==
    /\ Len(results) = 1
    /\ Successful(1)
    /\ Len(LinesOf(1)) = 2
    /\ Matches(LinesOf(1)[1])
    /\ Get(LinesOf(1)[1], "limit", None) = <<"0">>
    /\ Matches(LinesOf(1)[2])
    /\ Get(LinesOf(1)[2], "limit", None) = <<"1">>
    /\ ~ results[1].has_trustline

\* C9: a response none of whose entries equals the target in both the
\* account and the currency, letter for letter, gives false whatever the
\* limits are.
C9_NoExactMatchGivesFalse ==
    \A i \in 1..Len(results) :
        (replies[i].kind = "return"
            /\ \A k \in 1..Len(LinesOf(i)) : ~ Matches(LinesOf(i)[k]))
            => ~ results[i].has_trustline

\* Two entries of limit "1": the first has the target's account and the
\* currency in another case, the second the target's currency and the
\* account in another case.
C9_Witness ==
    /\ Len(results) = 1
    /\ Successful(1)
    /\ Len(LinesOf(1)) = 2
    /\ LinesOf(1)[1] = [account |-> checker.token_issuer,
                        currency |-> <<"u", "s", "d">>, limit |-> <<"1">>]
    /\ DOMAIN LinesOf(1)[2] = {"account", "currency", "limit"}
    /\ LinesOf(1)[2].account # checker.token_issuer
    /\ LinesOf(1)[2].currency = checker.token_currency
    /\ LinesOf(1)[2].limit = <<"1">>
    /\ ~ results[1].has_trustline

\* The positions of the records that are false, and the k-th of them.
FalseAt == {i \in 1..Len(results) : ~ results[i].has_trustline}

KthFalse(k) == CHOOSE i \in FalseAt : Cardinality({j \in FalseAt : j < i}) = k - 1

\* C11: the summary gives the length of the result list as the total, the
\* number of true records, the total less that number as the number of false
\* records, which is the length of the list of missing addresses, and that
\* list is the addresses of the false records in input order.
C11_SummaryCountsAndOrder ==
    summary # NoSummary
        => /\ summary.total = Len(results)
           /\ summary.with_trustline
                  = Cardinality({i \in 1..Len(results) : results[i].has_trustline})
           /\ summary.without_trustline = summary.total - summary.with_trustline
           /\ summary.without_trustline = Len(summary.missing)
           /\ Len(summary.missing) = Cardinality(FalseAt)
           /\ \A k \in 1..Len(summary.missing) :
                  summary.missing[k] = results[KthFalse(k)].address

\* The summary of (true, false, false) over three addresses, the two false
\* ones different: 3, 1, 2 and the second and third address in that order.
C11_Witness ==
    /\ summary # NoSummary
    /\ Len(results) = 3
    /\ results[1].has_trustline
    /\ wallets[2] # wallets[3]
    /\ summary.total = 3
    /\ summary.with_trustline = 1
    /\ summary.without_trustline = 2
    /\ summary.missing = <<wallets[2], wallets[3]>>

\* Where the separator stands in s.
Separators(s) == {i \in 1..Len(s) : s[i] = "."}

\* s after its last separator; s itself when it has none.
AfterLastSeparator(s) ==
    IF Separators(s) = {} THEN s
    ELSE LET last == CHOOSE i \in Separators(s) : \A j \in Separators(s) : j <= i
         IN  [k \in 1..(Len(s) - last) |-> s[last + k]]

\* C12: from its construction on, the checker's issuer is the configured
\* issuer after its last separator, and the configured issuer itself when
\* it has no separator.
C12_IssuerAfterLastSeparator ==
    "checker" \in names
        => /\ checker.token_issuer = AfterLastSeparator(env.token_issuer)
           /\ Separators(env.token_issuer) = {}
                  => checker.token_issuer = env.token_issuer

\* A run configured with "a.b.rA" has compared an entry of account "rA" as
\* the target.
C12_Witness ==
    /\ pc = "done"
    /\ env.token_issuer = <<"a", ".", "b", ".", "r", "A">>
    /\ checker.token_issuer = <<"r", "A">>
    /\ Len(results) >= 1
    /\ results[1].has_trustline

\* C13: two evaluations of the same address that get the same response give
\* the same boolean.
C13_SameResponseSameResult ==
    \A i, j \in 1..Len(results) :
        (wallets[i] = wallets[j] /\ replies[i] = replies[j])
            => results[i].has_trustline = results[j].has_trustline

\* The same address evaluated twice on the same response holding the target
\* trust line: true both times.
C13_Witness ==
    /\ Len(results) >= 2
    /\ wallets[1] = wallets[2]
    /\ replies[1] = Returned([lines |-> <<TargetLine(<<"1">>)>>])
    /\ replies[2] = replies[1]
    /\ results[1].has_trustline
    /\ results[2].has_trustline

\* A request or the open has raised an Exception in this run, and no
\* BaseException has arrived.
FailedBefore ==
    /\ \E k \in 1..Len(calls) : calls[k][2] = "raise"
    /\ \A k \in 1..Len(calls) : calls[k][2] # "abort"

RequestsUpTo(k) == Cardinality({j \in CallsOf("request") : j <= k})

\* C15: the batch is sequential, one request per address: every request made
\* has its reply, the n-th request is for the n-th address, the record of
\* each address is in hand before the next request is made, and a returned
\* batch has made as many requests as there are addresses.
C15_OneRequestPerAddressInTurn ==
    /\ Cardinality(CallsOf("request")) = Len(replies)
    /\ Cardinality(CallsOf("request")) = idx
    /\ \A k \in CallsOf("request") :
          /\ RequestsUpTo(k) <= Len(wallets)
          /\ calls[k][3] = wallets[RequestsUpTo(k)]
          /\ calls[k][2] = replies[RequestsUpTo(k)].kind
    /\ pc = "check" => Len(results) = idx
    /\ BatchReturned => Cardinality(CallsOf("request")) = Len(wallets)

\* A returned batch over an address, the same address again and another
\* one: three requests.
C15_Witness ==
    /\ BatchReturned
    /\ Len(wallets) = 3
    /\ wallets[1] = wallets[2]
    /\ wallets[2] # wallets[3]
    /\ Len(calls) >= 4
    /\ calls[2][3] = wallets[1]
    /\ calls[3][3] = wallets[2]
    /\ calls[4][3] = wallets[3]
    /\ Cardinality(CallsOf("request")) = 3

\* C16: a response that carries an error field gives the record false
\* without an exception, whatever entries it carries besides.
C16_ErrorFieldGivesFalse ==
    \A i \in 1..Len(replies) :
        (replies[i].kind = "return" /\ "error" \in DOMAIN replies[i].result)
            => /\ i <= Len(results)
               /\ ~ results[i].has_trustline
               /\ exc = "none"

\* A response with an error field and the target trust line of limit "1".
C16_Witness ==
    /\ Len(results) = 1
    /\ replies[1].kind = "return"
    /\ "error" \in DOMAIN replies[1].result
    /\ Len(LinesOf(1)) = 1
    /\ Matches(LinesOf(1)[1])
    /\ LimitNotZero(LinesOf(1)[1])
    /\ ~ results[1].has_trustline

\* The positions of the matching entries of the i-th response, and the
\* first of them.
MatchAt(i) == {k \in 1..Len(LinesOf(i)) : Matches(LinesOf(i)[k])}

FirstMatch(i) == CHOOSE k \in MatchAt(i) : \A j \in MatchAt(i) : k <= j

\* C17: when a successful response has matching entries, the earliest of
\* them decides alone: the result is true exactly when that entry has a
\* limit other than "0".
C17_EarliestMatchDecides ==
    \A i \in 1..Len(results) :
        (Successful(i) /\ MatchAt(i) # {})
            => (results[i].has_trustline
                    <=> LimitNotZero(LinesOf(i)[FirstMatch(i)]))

\* A matching entry of limit "1" ahead of a matching entry of limit "0":
\* the answer is true.
C17_Witness ==
    /\ Len(results) = 1
    /\ Successful(1)
    /\ MatchAt(1) = {1, 2}
    /\ Get(LinesOf(1)[1], "limit", None) = <<"1">>
    /\ Get(LinesOf(1)[2], "limit", None) = <<"0">>
    /\ results[1].has_trustline

\* C19: when the first matching entry of a successful response has no limit
\* field, the record is false, and no exception is raised for it.
C19_MissingLimitGivesFalse ==
    \A i \in 1..Len(replies) :
        (Successful(i) /\ MatchAt(i) # {}
            /\ "limit" \notin DOMAIN LinesOf(i)[FirstMatch(i)])
            => /\ i <= Len(results)
               /\ ~ results[i].has_trustline
               /\ exc = "none"

\* A matching entry without a limit ahead of a matching entry of limit "1":
\* the answer is false.
C19_Witness ==
    /\ Len(results) = 1
    /\ Successful(1)
    /\ MatchAt(1) = {1, 2}
    /\ "limit" \notin DOMAIN LinesOf(1)[1]
    /\ Get(LinesOf(1)[2], "limit", None) = <<"1">>
    /\ ~ results[1].has_trustline

\* C18: an evaluation, however it ends, changes neither the checker's
\* issuer, currency, endpoint and client, nor the settings and the address
\* list, nor any record collected before it.
C18_EvaluationLeavesStateAlone ==
    [][(pc = "check" /\ idx' = idx + 1)
          => /\ checker' = checker
             /\ env' = env
             /\ wallets' = wallets
             /\ Len(results') >= Len(results)
             /\ \A i \in 1..Len(results) : results'[i] = results[i]]_vars

\* Three evaluations of one address, ending in a trust line found, a
\* protocol error and a caught exception: the first record still says true
\* and the checker is as it was built.
C18_Witness ==
    /\ Len(results) = 3
    /\ wallets[1] = wallets[2] /\ wallets[2] = wallets[3]
    /\ Successful(1) /\ results[1].has_trustline
    /\ replies[2].kind = "return" /\ "error" \in DOMAIN replies[2].result
    /\ replies[3].kind = "raise"
    /\ checker = [websocket_url |-> env.websocket_url,
                  token_issuer |-> rA,
                  token_currency |-> env.token_currency,
                  client |-> "ws"]

====
